---- MODULE Spec2Model ----
(***************************************************************************)
(* A model of src/deep_learning.py: tensors as nested lists, the Layer     *)
(* hierarchy (Sigmoid, Tanh, Relu, Linear, Dropout, Sequential), the SSE   *)
(* loss, the GradientDescent and Momentum optimizers, the training loop    *)
(* and weight loading.                                                     *)
(*                                                                         *)
(* Numbers are integers: every operation of the program that the model     *)
(* computes (+, -, *, max, comparisons) is exact on Python ints, so the    *)
(* program run on the model's inputs yields the model's values.  Python    *)
(* lists are 0-based and TLA+ sequences 1-based: element i of a Python     *)
(* list is element i+1 of the sequence.  A list that the program mutates   *)
(* in place (a parameter, a velocity) is an object on `heap' and is        *)
(* referred to by its index there; every other list is a value.            *)
(***************************************************************************)
EXTENDS Integers, Sequences, FiniteSets, TLC

VARIABLES
    layers,   \* the sub-layers of the model under test (Sequential.layers)
    heap,     \* the lists mutated in place: heap[id] is the content of object id
    optim,    \* the optimizer object: lr, mo, updates (ids of the velocities)
    ret,      \* the result of the most recent call: a value or a raised error
    last,     \* the most recent call: its name, receiver and arguments
    trace,    \* the sub-layer calls made by the most recent Sequential call
    hist,     \* per layer: what the calls made so far on it have been
    lp,       \* the activation record of loop(): position and locals
    steps,    \* the number of optimizer steps taken so far
    oh        \* the arguments and result of one_hot_encode

vars == <<layers, heap, optim, ret, last, trace, hist, lp, steps, oh>>

----------------------------------------------------------------------------
(* Bounds of the model.                                                    *)

MaxLen == 2          \* longest input vector handed to a parameterless layer
MaxSteps == 2        \* optimizer steps in one behaviour
MaxLabels == 6       \* largest num_labels handed to one_hot_encode explicitly
MaxExamples == 2     \* longest data set handed to loop()

----------------------------------------------------------------------------
(* Python values.                                                          *)

\* An attribute that may not exist yet: <<>> when absent, <<v>> when set.
None == <<>>
Some(v) == <<v>>

\* The outcome of a call: a returned value, or the exception it raised.
Ok(v) == [err |-> "", val |-> v]
Raise(e) == [err |-> e, val |-> <<>>]

\* isinstance(v, list): a list prints as a tuple, a number does not.
isinstance_list(v) == SubSeq(ToString(v), 1, 1) = "<"

Min(a, b) == IF a < b THEN a ELSE b

\* zip(t1, t2) stops at the shorter argument.
zip(t1, t2) == [i \in 1..Min(Len(t1), Len(t2)) |-> <<t1[i], t2[i]>>]

RECURSIVE sum(_)
sum(xs) == IF xs = <<>> THEN 0 ELSE xs[1] + sum(Tail(xs))

----------------------------------------------------------------------------
(* Tensor utilities.                                                       *)

RECURSIVE shape(_)
shape(tensor) ==
    IF isinstance_list(tensor)
    THEN <<Len(tensor)>> \o shape(tensor[1])
    ELSE <<>>

is_1d(tensor) == ~isinstance_list(tensor[1])

RECURSIVE tensor_sum(_)
tensor_sum(tensor) ==
    IF is_1d(tensor)
    THEN sum(tensor)
    ELSE sum([i \in 1..Len(tensor) |-> tensor_sum(tensor[i])])

\* f is a function value: f[x] is the Python f(x).
RECURSIVE tensor_apply(_, _)
tensor_apply(f, tensor) ==
    IF is_1d(tensor)
    THEN [i \in 1..Len(tensor) |-> f[tensor[i]]]
    ELSE [i \in 1..Len(tensor) |-> tensor_apply(f, tensor[i])]

zero_like(tensor) == tensor_apply([x \in Int |-> 0], tensor)

\* f is a function value on pairs: f[<<x, y>>] is the Python f(x, y).
RECURSIVE tensor_combine(_, _, _)
tensor_combine(f, t1, t2) ==
    LET pairs == zip(t1, t2)
    IN  IF is_1d(t1)
        THEN [i \in 1..Len(pairs) |-> f[pairs[i]]]
        ELSE [i \in 1..Len(pairs) |->
                 tensor_combine(f, pairs[i][1], pairs[i][2])]

----------------------------------------------------------------------------
(* Layers.  A layer object is a record of its attributes; an attribute     *)
(* that __init__ does not set is None until a method assigns it.           *)
(* Dropout's p and the draws of random.random() are rationals with         *)
(* denominator 2, held as their numerators: p = 1 is the probability 1/2.  *)

Attrs(kind) ==
    [kind |-> kind, input_dim |-> 0, output_dim |-> 0, w |-> 0, b |-> 0,
     p |-> 0, train |-> FALSE,
     sigmoids |-> None, tanh |-> None, input |-> None, mask |-> None,
     w_grad |-> None, b_grad |-> None]

\* What a method call leaves behind: the object, the outcome, the
\* attributes it assigned, and the draws it has not consumed.
Done(self, outcome, writes, rng) ==
    [self |-> self, ret |-> outcome, writes |-> writes, rng |-> rng]

\* neural_networks.sigmoid: 1/(1+e^-x) has no integer value, so its
\* results are kept as terms.
sigmoid == [x \in Int |-> [sigmoid |-> x]]

\* sig * (1 - sig) * grad, on such a term.
sigmoid_grad == [sg \in [sigmoid : Int] \X Int |->
                    [dsigmoid |-> sg[1].sigmoid, grad |-> sg[2]]]

Sigmoid_init == Attrs("Sigmoid")

Sigmoid_forward(self, input) ==
    LET sigmoids == tensor_apply(sigmoid, input)
    IN  Done([self EXCEPT !.sigmoids = Some(sigmoids)], Ok(sigmoids),
             {"sigmoids"}, <<>>)

Sigmoid_backward(self, gradient) ==
    IF self.sigmoids = None
    THEN Done(self, Raise("AttributeError"), {}, <<>>)
    ELSE Done(self,
              Ok(tensor_combine(sigmoid_grad, self.sigmoids[1], gradient)),
              {}, <<>>)

\* tanh(x): the clamps, and (1 - e^0)/(1 + e^0) = 0 at x = 0; elsewhere
\* the value is no integer and is kept as a term.
tanh == [x \in Int |->
            IF x < -100 THEN -1
            ELSE IF x > 100 THEN 1
            ELSE IF x = 0 THEN 0
            ELSE [tanh |-> x]]

Tanh_init == Attrs("Tanh")

Tanh_forward(self, input) ==
    LET out == tensor_apply(tanh, input)
    IN  Done([self EXCEPT !.tanh = Some(out)], Ok(out), {"tanh"}, <<>>)

Tanh_backward(self, gradient) ==
    IF self.tanh = None
    THEN Done(self, Raise("AttributeError"), {}, <<>>)
    ELSE Done(self,
              Ok(tensor_combine(
                    [tg \in Int \X Int |-> (1 - tg[1] * tg[1]) * tg[2]],
                    self.tanh[1], gradient)),
              {}, <<>>)

Relu_init == Attrs("Relu")

Relu_forward(self, input) ==
    Done([self EXCEPT !.input = Some(input)],
         Ok(tensor_apply([x \in Int |-> IF x > 0 THEN x ELSE 0], input)),
         {"input"}, <<>>)

Relu_backward(self, gradient) ==
    IF self.input = None
    THEN Done(self, Raise("AttributeError"), {}, <<>>)
    ELSE Done(self,
              Ok(tensor_combine(
                    [xg \in Int \X Int |-> IF xg[1] > 0 THEN xg[2] ELSE 0],
                    self.input[1], gradient)),
              {}, <<>>)

\* vector_operations.dot: the sum of the componentwise products.
dot(v, w) ==
    LET pairs == zip(v, w)
    IN  sum([i \in 1..Len(pairs) |-> pairs[i][1] * pairs[i][2]])

\* w and b are the heap objects holding the random_tensor results.
Linear_init(input_dim, output_dim, w, b) ==
    [Attrs("Linear") EXCEPT !.input_dim = input_dim,
                            !.output_dim = output_dim, !.w = w, !.b = b]

Linear_forward(self, hp, input) ==
    Done([self EXCEPT !.input = Some(input)],
         Ok([o \in 1..self.output_dim |->
                dot(input, hp[self.w][o]) + hp[self.b][o]]),
         {"input"}, <<>>)

\* Linear.backward with gradient[0] in place of gradient[o] in w_grad.
Linear_backward_first_gradient(self, hp, gradient) ==
    LET s1 == [self EXCEPT !.b_grad = Some(gradient)]
    IN  IF self.input = None
        THEN Done(s1, Raise("AttributeError"), {"b_grad"}, <<>>)
        ELSE LET w_grad == [o \in 1..self.output_dim |->
                               [i \in 1..self.input_dim |->
                                   self.input[1][i] * gradient[1]]]
             IN  Done([s1 EXCEPT !.w_grad = Some(w_grad)],
                      Ok([i \in 1..self.input_dim |->
                             sum([o \in 1..self.output_dim |->
                                     hp[self.w][o][i] * gradient[o]])]),
                      {"b_grad", "w_grad"}, <<>>)

\* self.input[i] and gradient[o] are read inside the comprehensions over
\* range(self.input_dim) and range(self.output_dim): with a dimension of 0
\* neither is read, and the call returns whatever the object holds.
Linear_backward(self, hp, gradient) ==
    LET s1 == [self EXCEPT !.b_grad = Some(gradient)]
        reads == self.input_dim >= 1 /\ self.output_dim >= 1
    IN  IF reads /\ self.input = None
        THEN Done(s1, Raise("AttributeError"), {"b_grad"}, <<>>)
        ELSE IF reads /\ (Len(self.input[1]) < self.input_dim
                             \/ Len(gradient) < self.output_dim)
        THEN Done(s1, Raise("IndexError"), {"b_grad"}, <<>>)
        ELSE LET w_grad == [o \in 1..self.output_dim |->
                               [i \in 1..self.input_dim |->
                                   self.input[1][i] * gradient[o]]]
             IN  Done([s1 EXCEPT !.w_grad = Some(w_grad)],
                      Ok([i \in 1..self.input_dim |->
                             sum([o \in 1..self.output_dim |->
                                     hp[self.w][o][i] * gradient[o]])]),
                      {"b_grad", "w_grad"}, <<>>)

Linear_params(self) == <<self.w, self.b>>

\* Linear.grads returning the bias gradient first.
Linear_grads_swapped(self) ==
    IF self.w_grad = None \/ self.b_grad = None
    THEN Raise("AttributeError")
    ELSE Ok(<<self.b_grad[1], self.w_grad[1]>>)

Linear_grads(self) ==
    IF self.w_grad = None \/ self.b_grad = None
    THEN Raise("AttributeError")
    ELSE Ok(<<self.w_grad[1], self.b_grad[1]>>)

\* The number of leaves of a tensor.
size(tensor) == tensor_sum(tensor_apply([x \in Int |-> 1], tensor))

Drop(rng, n) == SubSeq(rng, n + 1, Len(rng))

\* tensor_apply(lambda _: 0 if random.random() < self.p else 1, input):
\* the leaves are visited in order, each taking the next draw of rng, so
\* that entry i starts after the draws of all the leaves before it.
RECURSIVE random_mask(_, _, _)
random_mask(p, input, rng) ==
    IF is_1d(input)
    THEN [i \in 1..Len(input) |-> IF rng[i] < p THEN 0 ELSE 1]
    ELSE [i \in 1..Len(input) |->
             random_mask(p, input[i],
                         Drop(rng, sum([k \in 1..(i - 1) |-> size(input[k])])))]

Dropout_init(p) == [Attrs("Dropout") EXCEPT !.p = p, !.train = TRUE]

\* In evaluation mode x * (1 - self.p) is x * (2 - p) / 2 on the numerator
\* p: an integer when the product is even, and kept as a term when not.
Dropout_forward(self, input, rng) ==
    IF self.train
    THEN LET mask == random_mask(self.p, input, rng)
         IN  Done([self EXCEPT !.mask = Some(mask)],
                  Ok(tensor_combine([xm \in Int \X Int |-> xm[1] * xm[2]],
                                    input, mask)),
                  {"mask"}, Drop(rng, size(input)))
    ELSE Done(self,
              Ok(tensor_apply(
                    [x \in Int |-> IF (x * (2 - self.p)) % 2 = 0
                                   THEN (x * (2 - self.p)) \div 2
                                   ELSE [halves |-> x * (2 - self.p)]],
                    input)),
              {}, rng)

Dropout_backward(self, gradient) ==
    IF self.train
    THEN IF self.mask = None
         THEN Done(self, Raise("AttributeError"), {}, <<>>)
         ELSE Done(self,
                   Ok(tensor_combine([gm \in Int \X Int |-> gm[1] * gm[2]],
                                     gradient, self.mask[1])),
                   {}, <<>>)
    ELSE Done(self, Raise("RuntimeError"), {}, <<>>)

\* Method dispatch on the class of the object.
forward(self, hp, input, rng) ==
    CASE self.kind = "Sigmoid" -> [Sigmoid_forward(self, input) EXCEPT !.rng = rng]
      [] self.kind = "Tanh"    -> [Tanh_forward(self, input) EXCEPT !.rng = rng]
      [] self.kind = "Relu"    -> [Relu_forward(self, input) EXCEPT !.rng = rng]
      [] self.kind = "Linear"  -> [Linear_forward(self, hp, input) EXCEPT !.rng = rng]
      [] self.kind = "Dropout" -> Dropout_forward(self, input, rng)

backward(self, hp, gradient) ==
    CASE self.kind = "Sigmoid" -> Sigmoid_backward(self, gradient)
      [] self.kind = "Tanh"    -> Tanh_backward(self, gradient)
      [] self.kind = "Relu"    -> Relu_backward(self, gradient)
      [] self.kind = "Linear"  -> Linear_backward(self, hp, gradient)
      [] self.kind = "Dropout" -> Dropout_backward(self, gradient)

\* Layer.params / Layer.grads, overridden by Linear.
params(self) == IF self.kind = "Linear" THEN Linear_params(self) ELSE <<>>

grads(self) == IF self.kind = "Linear" THEN Linear_grads(self) ELSE Ok(<<>>)

----------------------------------------------------------------------------
(* Sequential.  ls is self.layers.  The sub-layer calls are recorded in    *)
(* the order they are made; an exception raised by a sub-layer ends the    *)
(* loop and is the outcome of the call.                                    *)

SubCall(op, k, arg, r) ==
    [op |-> op, k |-> k, arg |-> arg, ret |-> r.ret, writes |-> r.writes]

Ran(ls, outcome, calls, rng) ==
    [layers |-> ls, ret |-> outcome, trace |-> calls, rng |-> rng]

\* for layer in self.layers[j:]: input = layer.forward(input)
RECURSIVE Sequential_forward_loop(_, _, _, _, _, _)
Sequential_forward_loop(ls, hp, j, input, rng, calls) ==
    IF j > Len(ls)
    THEN Ran(ls, Ok(input), calls, rng)
    ELSE LET r == forward(ls[j], hp, input, rng)
             ls1 == [ls EXCEPT ![j] = r.self]
             calls1 == Append(calls, SubCall("forward", j, input, r))
         IN  IF r.ret.err # ""
             THEN Ran(ls1, r.ret, calls1, r.rng)
             ELSE Sequential_forward_loop(ls1, hp, j + 1, r.ret.val, r.rng, calls1)

Sequential_forward(ls, hp, input, rng) ==
    Sequential_forward_loop(ls, hp, 1, input, rng, <<>>)

\* for layer in reversed(self.layers)[..j]: gradient = layer.backward(gradient)
RECURSIVE Sequential_backward_loop(_, _, _, _, _)
Sequential_backward_loop(ls, hp, j, gradient, calls) ==
    IF j < 1
    THEN Ran(ls, Ok(gradient), calls, <<>>)
    ELSE LET r == backward(ls[j], hp, gradient)
             ls1 == [ls EXCEPT ![j] = r.self]
             calls1 == Append(calls, SubCall("backward", j, gradient, r))
         IN  IF r.ret.err # ""
             THEN Ran(ls1, r.ret, calls1, <<>>)
             ELSE Sequential_backward_loop(ls1, hp, j - 1, r.ret.val, calls1)

\* Sequential.backward calling the sub-layers in declaration order.
RECURSIVE Sequential_backward_up(_, _, _, _, _)
Sequential_backward_up(ls, hp, j, gradient, calls) ==
    IF j > Len(ls)
    THEN Ran(ls, Ok(gradient), calls, <<>>)
    ELSE LET r == backward(ls[j], hp, gradient)
             ls1 == [ls EXCEPT ![j] = r.self]
             calls1 == Append(calls, SubCall("backward", j, gradient, r))
         IN  IF r.ret.err # ""
             THEN Ran(ls1, r.ret, calls1, <<>>)
             ELSE Sequential_backward_up(ls1, hp, j + 1, r.ret.val, calls1)

Sequential_backward_in_order(ls, hp, gradient) ==
    Sequential_backward_up(ls, hp, 1, gradient, <<>>)

Sequential_backward(ls, hp, gradient) ==
    Sequential_backward_loop(ls, hp, Len(ls), gradient, <<>>)

\* (param for layer in self.layers for param in layer.params())
RECURSIVE Sequential_params(_)
Sequential_params(ls) ==
    IF ls = <<>> THEN <<>>
    ELSE params(ls[1]) \o Sequential_params(Tail(ls))

\* (grad for layer in self.layers for grad in layer.grads()): a generator,
\* which yields the gradients of the layers before the first one whose
\* grads() raises, and then raises: val holds what it yields.
RECURSIVE Sequential_grads(_)
Sequential_grads(ls) ==
    IF ls = <<>> THEN Ok(<<>>)
    ELSE LET g == grads(ls[1])
             rest == Sequential_grads(Tail(ls))
         IN  IF g.err # "" THEN g
             ELSE [err |-> rest.err, val |-> g.val \o rest.val]

----------------------------------------------------------------------------
(* Optimizers.  A step leaves the heap as the in-place assignments made    *)
(* it, also when it ends in an exception.                                  *)

Stepped(hp, opt, outcome) == [heap |-> hp, optim |-> opt, ret |-> outcome]

GradientDescent_init(learning_rate) ==
    [kind |-> "GradientDescent", lr |-> learning_rate, mo |-> 0, updates |-> <<>>]

\* lambda param, grad: param + grad * self.lr
GradientDescent_ascent(self) == [pg \in Int \X Int |-> pg[1] + pg[2] * self.lr]

\* lambda param, grad: param - grad * self.lr
GradientDescent_update(self) == [pg \in Int \X Int |-> pg[1] - pg[2] * self.lr]

\* for param, grad in zip(layer.params(), layer.grads())[k:]:
\*     param[:] = tensor_combine(..., param, grad)
RECURSIVE GradientDescent_step_loop(_, _, _, _, _)
GradientDescent_step_loop(self, hp, ps, gs, k) ==
    IF k > Len(ps) THEN Stepped(hp, self, Ok(<<>>))
    ELSE IF k > Len(gs.val)
    THEN Stepped(hp, self, IF gs.err # "" THEN Raise(gs.err) ELSE Ok(<<>>))
    ELSE GradientDescent_step_loop(
             self,
             [hp EXCEPT ![ps[k]] =
                 tensor_combine(GradientDescent_update(self), hp[ps[k]], gs.val[k])],
             ps, gs, k + 1)

GradientDescent_step(self, ls, hp) ==
    GradientDescent_step_loop(self, hp, Sequential_params(ls),
                              Sequential_grads(ls), 1)

Momentum_init(learning_rate, momentum) ==
    [kind |-> "Momentum", lr |-> learning_rate, mo |-> momentum, updates |-> <<>>]

\* for update, param, grad in zip(self.updates, layer.params(), layer.grads())[k:]
RECURSIVE Momentum_step_loop(_, _, _, _, _)
Momentum_step_loop(self, hp, ps, gs, k) ==
    IF k > Len(self.updates) \/ k > Len(ps) THEN Stepped(hp, self, Ok(<<>>))
    ELSE IF k > Len(gs.val)
    THEN Stepped(hp, self, IF gs.err # "" THEN Raise(gs.err) ELSE Ok(<<>>))
    ELSE LET update == tensor_combine(
                           [ug \in Int \X Int |->
                               self.mo * ug[1] + (1 - self.mo) * ug[2]],
                           hp[self.updates[k]], gs.val[k])
             hp1 == [hp EXCEPT ![self.updates[k]] = update]
             param == tensor_combine(
                          [pu \in Int \X Int |-> pu[1] - self.lr * pu[2]],
                          hp1[ps[k]], hp1[self.updates[k]])
         IN  Momentum_step_loop(self, [hp1 EXCEPT ![ps[k]] = param], ps, gs, k + 1)

\* Momentum.step that starts from new zero velocities at every call.
Momentum_step_restart(self, ls, hp) ==
    LET ps == Sequential_params(ls)
        gs == Sequential_grads(ls)
    IN  IF gs.err # ""
        THEN Stepped(hp, self, Raise(gs.err))
        ELSE Momentum_step_loop(
                 [self EXCEPT !.updates = [k \in 1..Len(gs.val) |-> Len(hp) + k]],
                 hp \o [k \in 1..Len(gs.val) |-> zero_like(gs.val[k])],
                 ps, gs, 1)

\* if not self.updates: self.updates = [zero_like(grad) for grad in layer.grads()]
\* The new lists are new objects, at the end of the heap.
Momentum_step(self, ls, hp) ==
    LET ps == Sequential_params(ls)
        gs == Sequential_grads(ls)
    IN  IF self.updates = <<>>
        THEN IF gs.err # ""
             THEN Stepped(hp, self, Raise(gs.err))
             ELSE Momentum_step_loop(
                      [self EXCEPT !.updates =
                          [k \in 1..Len(gs.val) |-> Len(hp) + k]],
                      hp \o [k \in 1..Len(gs.val) |-> zero_like(gs.val[k])],
                      ps, gs, 1)
        ELSE Momentum_step_loop(self, hp, ps, gs, 1)

----------------------------------------------------------------------------
(* Weight loading.  weights is what json.load returned.                    *)

\* for param, weight in zip(model.params(), weights)[k:]: param[:] = weight
RECURSIVE load_weights_loop(_, _, _, _)
load_weights_loop(hp, ps, weights, k) ==
    IF k > Len(zip(ps, weights)) THEN hp
    ELSE load_weights_loop([hp EXCEPT ![ps[k]] = weights[k]], ps, weights, k + 1)

load_weights(ls, hp, weights) ==
    LET ps == Sequential_params(ls)
    IN  IF \A k \in 1..Len(zip(ps, weights)) :
               shape(hp[ps[k]]) = shape(weights[k])
        THEN [heap |-> load_weights_loop(hp, ps, weights, 1), ret |-> Ok(<<>>)]
        ELSE [heap |-> hp, ret |-> Raise("AssertionError")]

----------------------------------------------------------------------------
(* The SSE loss, one-hot encoding and the training loop.                   *)

SSE_loss(predicted, actual) ==
    tensor_sum(tensor_combine(
        [pa \in Int \X Int |-> (pa[1] - pa[2]) * (pa[1] - pa[2])],
        predicted, actual))

SSE_gradient(predicted, actual) ==
    tensor_combine([pa \in Int \X Int |-> 2 * (pa[1] - pa[2])], predicted, actual)

\* neural_networks.argmax: the index of the largest value, the first such.
argmax(xs) ==
    CHOOSE i \in 1..Len(xs) :
        /\ \A j \in 1..Len(xs) : xs[j] <= xs[i]
        /\ \A j \in 1..(i - 1) : xs[j] < xs[i]

\* The default of one_hot_encode's num_labels.
DefaultNumLabels == 10

\* one_hot_encode counting the labels from 1.
one_hot_encode_one_based(i, num_labels) ==
    [j \in 1..num_labels |-> IF j = i THEN 1 ELSE 0]

\* [1.0 if j == i else 0.0 for j in range(num_labels)]: the j of the
\* program is one less than the position in the sequence.
one_hot_encode(i, num_labels) ==
    [j \in 1..num_labels |-> IF j - 1 = i THEN 1 ELSE 0]

\* The training branch of loop() taken whatever optimizer is.
AfterLoss_always(optimizer) == "gradient"

\* if optimizer is not None: the position after the loss is accumulated.
AfterLoss(optimizer) == IF optimizer THEN "gradient" ELSE "next"

----------------------------------------------------------------------------
(* Random tensors.  Their leaves are fractions, held as a numerator n and  *)
(* a denominator d that are not reduced.  rng holds what the successive    *)
(* draws give: for random_uniform the values of random.random() as         *)
(* numerators over 2, for random_normal the standard normal deviates       *)
(* inverse_normal_cdf(random.random()).                                    *)

Rat(n, d) == [n |-> n, d |-> d]

RECURSIVE prod(_)
prod(dims) == IF dims = <<>> THEN 1 ELSE dims[1] * prod(Tail(dims))

RECURSIVE random_uniform(_, _)
random_uniform(dims, rng) ==
    IF Len(dims) = 1
    THEN [i \in 1..dims[1] |-> Rat(rng[i], 2)]
    ELSE [i \in 1..dims[1] |->
             random_uniform(Tail(dims), Drop(rng, (i - 1) * prod(Tail(dims))))]

\* mean + variance * z, for the fractions mean and variance.
normal_leaf(mean, variance, z) ==
    Rat(mean.n * variance.d + variance.n * z * mean.d, mean.d * variance.d)

RECURSIVE random_normal(_, _, _, _)
random_normal(dims, mean, variance, rng) ==
    IF Len(dims) = 1
    THEN [i \in 1..dims[1] |-> normal_leaf(mean, variance, rng[i])]
    ELSE [i \in 1..dims[1] |->
             random_normal(Tail(dims), mean, variance,
                           Drop(rng, (i - 1) * prod(Tail(dims))))]

random_tensor(dims, init, rng) ==
    CASE init = "normal"  -> Ok(random_normal(dims, Rat(0, 1), Rat(1, 1), rng))
      [] init = "uniform" -> Ok(random_uniform(dims, rng))
      [] init = "xavier"  ->
            IF sum(dims) = 0
            THEN Raise("ZeroDivisionError")
            ELSE Ok(random_normal(dims, Rat(0, 1), Rat(Len(dims), sum(dims)), rng))
      [] OTHER            -> Raise("ValueError")

\* Linear(input_dim, output_dim, init): the layer and the heap with its
\* two new parameter objects, or the exception random_tensor raised, in
\* which case no object comes to exist.
Linear_new(input_dim, output_dim, init, hp, rng) ==
    LET w == random_tensor(<<output_dim, input_dim>>, init, rng)
        b == random_tensor(<<output_dim>>, init, Drop(rng, output_dim * input_dim))
    IN  IF w.err # "" THEN [ret |-> w, layers |-> <<>>, heap |-> hp]
        ELSE IF b.err # "" THEN [ret |-> b, layers |-> <<>>, heap |-> hp]
        ELSE [ret |-> Ok(<<>>),
              layers |-> <<Linear_init(input_dim, output_dim,
                                       Len(hp) + 1, Len(hp) + 2)>>,
              heap |-> hp \o <<w.val, b.val>>]

----------------------------------------------------------------------------
(* The callers' inputs.                                                    *)

XVals == {-150, 0, 150}      \* the leaves of an input: below the tanh clamp, zero, above it
GVals == {-2, 2}             \* the leaves of a gradient

Vectors(S, n) == [1..n -> S]
VectorsUpTo(S, n) == UNION {Vectors(S, m) : m \in 1..n}

\* A tensor of rank 2 fed to Dropout, and the gradients of its shape.
Matrix == <<<<150>>, <<-150>>>>
MatrixGradients == {<<<<g>>, <<-g>>>> : g \in GVals}

\* A Linear layer takes vectors of its own dimensions, any other layer
\* takes any vector; Dropout is fed nonzero leaves, where a dropped leaf
\* differs from a kept one, as a vector or as a matrix.
InputsFor(self) ==
    IF self.kind = "Linear" THEN Vectors(XVals, self.input_dim)
    ELSE IF self.kind = "Dropout"
    THEN VectorsUpTo(XVals \ {0}, MaxLen) \cup {Matrix}
    ELSE VectorsUpTo(XVals, MaxLen)

\* A Dropout holding the mask of a matrix is handed gradients of that shape.
GradientsFor(self) ==
    IF self.kind = "Linear" THEN Vectors(GVals, self.output_dim)
    ELSE IF self.kind = "Dropout" /\ self.mask # None /\ ~is_1d(self.mask[1])
    THEN MatrixGradients
    ELSE VectorsUpTo(GVals, MaxLen)

\* The draws random.random() may return during a forward call on self:
\* 0 or 1/2 for every leaf of the input, and none when the layer draws
\* nothing.
DrawsFor(self, input) ==
    IF self.kind = "Dropout" /\ self.train THEN Vectors({0, 1}, size(input))
                                           ELSE {<<>>}

\* The values random_tensor gave a Linear(2, 3): w is 3 by 2, b has 3 entries.
W32 == <<<<1, 2>>, <<3, -4>>, <<-5, 6>>>>
B3 == <<2, -2, 4>>

\* The values random_tensor gave a Linear(0, 2): w has 2 rows of no entry.
W20 == <<<<>>, <<>>>>
B20 == <<3, -3>>

----------------------------------------------------------------------------
(* State outside the part a specification exercises.                       *)

NoOptim == [kind |-> "None", lr |-> 0, mo |-> 0, updates |-> <<>>]
NoLoop ==
    [pc |-> "idle", i |-> 0, images |-> <<>>, labels |-> <<>>,
     optimizer |-> FALSE, predicted |-> None, gradient |-> None,
     correct |-> 0, total_loss |-> 0, calls |-> <<>>, before |-> <<>>]
NoOneHot == [i |-> 0, num_labels |-> 0, out |-> None]
NoCall == [op |-> "", k |-> 0, arg |-> <<>>]
Call(op, k, arg) == [op |-> op, k |-> k, arg |-> arg]

\* hist[k]: whether forward was ever called on layer k, the input of the
\* most recent forward call, and whether that call assigned the cache.
NoHist == [called |-> FALSE, input |-> None, cached |-> FALSE]

----------------------------------------------------------------------------
(* LayerSpec: one layer object, called directly.                           *)

LayerZoo ==
    {<<Sigmoid_init>>, <<Tanh_init>>, <<Relu_init>>,
     <<Dropout_init(0)>>, <<Dropout_init(1)>>, <<Dropout_init(2)>>,
     <<Linear_init(2, 3, 1, 2)>>, <<Linear_init(0, 2, 1, 2)>>}

LayerInit ==
    /\ layers \in LayerZoo
    /\ heap = IF layers[1].kind # "Linear" THEN <<>>
              ELSE IF layers[1].input_dim = 0 THEN <<W20, B20>>
              ELSE <<W32, B3>>
    /\ optim = NoOptim
    /\ ret = Ok(<<>>)
    /\ last = NoCall
    /\ trace = <<>>
    /\ hist = [k \in 1..Len(layers) |-> NoHist]
    /\ lp = NoLoop
    /\ steps = 0
    /\ oh = NoOneHot

\* layer.forward(input)
LayerForward ==
    \E k \in 1..Len(layers) :
    \E input \in InputsFor(layers[k]) :
    \E rng \in DrawsFor(layers[k], input) :
        LET r == forward(layers[k], heap, input, rng)
        IN  /\ layers' = [layers EXCEPT ![k] = r.self]
            /\ ret' = r.ret
            /\ last' = Call("forward", k, input)
            /\ hist' = [hist EXCEPT ![k] = [called |-> TRUE,
                                            input |-> Some(input),
                                            cached |-> r.writes # {}]]
            /\ UNCHANGED <<heap, optim, trace, lp, steps, oh>>

\* layer.backward(gradient)
LayerBackward ==
    \E k \in 1..Len(layers) :
    \E gradient \in GradientsFor(layers[k]) :
        LET r == backward(layers[k], heap, gradient)
        IN  /\ layers' = [layers EXCEPT ![k] = r.self]
            /\ ret' = r.ret
            /\ last' = Call("backward", k, gradient)
            /\ UNCHANGED <<heap, optim, trace, hist, lp, steps, oh>>

\* dropout.train = flag
SetTrain ==
    \E k \in 1..Len(layers) :
    \E flag \in BOOLEAN :
        /\ layers[k].kind = "Dropout"
        /\ layers[k].train # flag
        /\ layers' = [layers EXCEPT ![k].train = flag]
        /\ ret' = Ok(<<>>)
        /\ last' = Call("train", k, <<flag>>)
        /\ UNCHANGED <<heap, optim, trace, hist, lp, steps, oh>>

LayerNext == LayerForward \/ LayerBackward \/ SetTrain

LayerSpec == LayerInit /\ [][LayerNext]_vars

----------------------------------------------------------------------------
(* SeqSpec: a Sequential model, an optimizer and weight loading.           *)

\* The values random_tensor gave the Linear layers of the models.
W22 == <<<<1, 2>>, <<3, -4>>>>
B2 == <<1, -1>>
W12 == <<<<-1, 2>>>>
B1 == <<4>>

\* Sequential([Linear(2, 2), Relu(), Linear(2, 1)]),
\* Sequential([Linear(2, 2), Dropout(1/2)]) and
\* Sequential([Tanh(), Linear(2, 1)]), each with the heap of its parameters.
Models ==
    {[layers |-> <<Linear_init(2, 2, 1, 2), Relu_init, Linear_init(2, 1, 3, 4)>>,
      heap |-> <<W22, B2, W12, B1>>],
     [layers |-> <<Linear_init(2, 2, 1, 2), Dropout_init(1)>>,
      heap |-> <<W22, B2>>],
     [layers |-> <<Tanh_init, Linear_init(2, 1, 1, 2)>>,
      heap |-> <<W12, B1>>]}

Optimizers == {GradientDescent_init(2), Momentum_init(1, 2)}

Linears(ls) == {j \in 1..Len(ls) : ls[j].kind = "Linear"}
First(S) == CHOOSE j \in S : \A i \in S : j <= i
Final(S) == CHOOSE j \in S : \A i \in S : i <= j

\* The model takes vectors of its first Linear layer's input_dim and
\* gradients of its last Linear layer's output_dim.  A model that starts
\* with Tanh is fed leaves beyond the clamps, where tanh is an integer.
ModelInputs(ls) ==
    {x \in Vectors(IF ls[1].kind = "Tanh" THEN {-150, 150} ELSE {-1, 1},
                   ls[First(Linears(ls))].input_dim) : x[1] > 0}
ModelGradients(ls) == Vectors(GVals, ls[Final(Linears(ls))].output_dim)

\* The draws of one forward pass: MaxLen for every training-mode Dropout.
ModelDraws(ls) ==
    Vectors({0, 1},
            MaxLen * Cardinality({j \in 1..Len(ls) : ls[j].kind = "Dropout"
                                                      /\ ls[j].train}))

\* A tensor of the given shape with every leaf v.
RECURSIVE full(_, _)
full(dims, v) ==
    IF Len(dims) = 1 THEN [i \in 1..dims[1] |-> v]
    ELSE [i \in 1..dims[1] |-> full(Tail(dims), v)]

\* What a weights file may hold for a model with parameters ps: a tensor
\* per parameter with the parameter's shape, the same without its last
\* tensor, the same with one tensor more, and the same with a longer
\* last tensor.
Matching(hp, ps) == [k \in 1..Len(ps) |-> full(shape(hp[ps[k]]), 6)]
StoredWeights(hp, ps) ==
    {Matching(hp, ps),
     SubSeq(Matching(hp, ps), 1, Len(ps) - 1),
     Matching(hp, ps) \o <<<<6>>>>,
     [Matching(hp, ps) EXCEPT ![Len(ps)] = <<6>> \o @]}

\* hist after the sub-layer calls of a Sequential call.
HistAfter(h, calls) ==
    [k \in 1..Len(h) |->
        LET mine == {c \in 1..Len(calls) : calls[c].k = k /\ calls[c].op = "forward"}
        IN  IF mine = {} THEN h[k]
            ELSE [called |-> TRUE,
                  input |-> Some(calls[Final(mine)].arg),
                  cached |-> calls[Final(mine)].writes # {}]]

SeqInit ==
    /\ \E m \in Models : layers = m.layers /\ heap = m.heap
    /\ optim \in Optimizers
    /\ ret = Ok(<<>>)
    /\ last = NoCall
    /\ trace = <<>>
    /\ hist = [k \in 1..Len(layers) |-> NoHist]
    /\ lp = NoLoop
    /\ steps = 0
    /\ oh = NoOneHot

\* model.forward(input)
SeqForward ==
    \E input \in ModelInputs(layers) :
    \E rng \in ModelDraws(layers) :
        LET r == Sequential_forward(layers, heap, input, rng)
        IN  /\ layers' = r.layers
            /\ ret' = r.ret
            /\ trace' = r.trace
            /\ last' = Call("forward", 0, input)
            /\ hist' = HistAfter(hist, r.trace)
            /\ UNCHANGED <<heap, optim, lp, steps, oh>>

\* model.backward(gradient)
SeqBackward ==
    \E gradient \in ModelGradients(layers) :
        LET r == Sequential_backward(layers, heap, gradient)
        IN  /\ layers' = r.layers
            /\ ret' = r.ret
            /\ trace' = r.trace
            /\ last' = Call("backward", 0, gradient)
            /\ UNCHANGED <<heap, optim, hist, lp, steps, oh>>

\* optimizer.step(model), optimizer a GradientDescent
GDStep ==
    /\ optim.kind = "GradientDescent"
    /\ steps < MaxSteps
    /\ LET r == GradientDescent_step(optim, layers, heap)
       IN  /\ heap' = r.heap
           /\ optim' = r.optim
           /\ ret' = r.ret
    /\ last' = Call("step", 0, <<>>)
    /\ steps' = steps + 1
    /\ UNCHANGED <<layers, trace, hist, lp, oh>>

\* optimizer.step(model), optimizer a Momentum
MomentumStep ==
    /\ optim.kind = "Momentum"
    /\ steps < MaxSteps
    /\ LET r == Momentum_step(optim, layers, heap)
       IN  /\ heap' = r.heap
           /\ optim' = r.optim
           /\ ret' = r.ret
    /\ last' = Call("step", 0, <<>>)
    /\ steps' = steps + 1
    /\ UNCHANGED <<layers, trace, hist, lp, oh>>

\* load_weights(model, filename), the file holding weights
LoadWeights ==
    \E weights \in StoredWeights(heap, Sequential_params(layers)) :
        LET r == load_weights(layers, heap, weights)
        IN  /\ heap' = r.heap
            /\ ret' = r.ret
            /\ last' = Call("load_weights", 0, weights)
            /\ UNCHANGED <<layers, optim, trace, hist, lp, steps, oh>>

SeqNext == SeqForward \/ SeqBackward \/ SetTrain

SeqSpec == SeqInit /\ [][SeqNext]_vars

\* OptSpec: the models without a random layer, trained by an optimizer.
OptNext == SeqForward \/ SeqBackward \/ GDStep \/ MomentumStep

OptInit == SeqInit /\ \A k \in 1..Len(layers) : layers[k].kind # "Dropout"

OptSpec == OptInit /\ [][OptNext]_vars

\* LoadSpec: the same models, their weights loaded from a file.
LoadNext == SeqForward \/ LoadWeights

LoadSpec == SeqInit /\ [][LoadNext]_vars

----------------------------------------------------------------------------
(* LoopSpec: loop(model, images, labels, loss, optimizer) with the SSE     *)
(* loss, one statement at a time.  lp holds the position (pc), the locals, *)
(* the calls made so far by this activation and the heap as it was when    *)
(* it started; optimizer is whether an optimizer was passed.               *)

\* The targets of a model are the one-hot encodings of its classes.
Targets(ls) ==
    LET n == ls[Final(Linears(ls))].output_dim
    IN  {one_hot_encode(k, n) : k \in 0..(n - 1)}

DataSets(ls) ==
    UNION {[images : Vectors(ModelInputs(ls), n),
            labels : Vectors(Targets(ls), n)] : n \in 1..MaxExamples}

Called(op) == Append(lp.calls, [op |-> op, i |-> lp.i])

\* No activation of loop() is running, and the last one, if any, was a
\* training run that ended normally: the script trains, then evaluates
\* (here on a test set of one example).
Between == lp.pc = "idle" \/ (lp.pc = "done" /\ lp.optimizer)

\* loop(model, images, labels, loss[, optimizer])
LoopCall ==
    \E data \in DataSets(layers) :
    \E optimizer \in BOOLEAN :
        /\ Between
        /\ lp.pc = "done" => ~optimizer /\ Len(data.images) = 1
        /\ lp' = [NoLoop EXCEPT !.pc = "forward",
                                !.images = data.images,
                                !.labels = data.labels,
                                !.optimizer = optimizer,
                                !.before = heap]
        /\ last' = Call("loop", 0, <<>>)
        /\ ret' = Ok(<<>>)
        /\ UNCHANGED <<layers, heap, optim, trace, hist, steps, oh>>

\* predicted = model.forward(images[i])
LoopForward ==
    /\ lp.pc = "forward"
    /\ \E rng \in ModelDraws(layers) :
          LET r == Sequential_forward(layers, heap, lp.images[lp.i + 1], rng)
          IN  /\ layers' = r.layers
              /\ ret' = r.ret
              /\ trace' = r.trace
              /\ hist' = HistAfter(hist, r.trace)
              /\ lp' = [lp EXCEPT !.pc = IF r.ret.err = "" THEN "loss" ELSE "raised",
                                  !.predicted = IF r.ret.err = "" THEN Some(r.ret.val) ELSE @,
                                  !.calls = Called("forward")]
    /\ last' = Call("forward", 0, lp.images[lp.i + 1])
    /\ UNCHANGED <<heap, optim, steps, oh>>

\* if argmax(predicted) == argmax(labels[i]): correct += 1
\* total_loss += loss.loss(predicted, labels[i])
LoopLoss ==
    /\ lp.pc = "loss"
    /\ lp' = [lp EXCEPT !.pc = AfterLoss(lp.optimizer),
                        !.correct = IF argmax(lp.predicted[1]) = argmax(lp.labels[lp.i + 1])
                                    THEN @ + 1 ELSE @,
                        !.total_loss = @ + SSE_loss(lp.predicted[1], lp.labels[lp.i + 1]),
                        !.calls = Called("loss")]
    /\ last' = Call("loss", 0, <<lp.predicted[1], lp.labels[lp.i + 1]>>)
    /\ ret' = Ok(<<SSE_loss(lp.predicted[1], lp.labels[lp.i + 1])>>)
    /\ UNCHANGED <<layers, heap, optim, trace, hist, steps, oh>>

\* gradient = loss.gradient(predicted, labels[i])
LoopGradient ==
    /\ lp.pc = "gradient"
    /\ lp' = [lp EXCEPT !.pc = "backward",
                        !.gradient = Some(SSE_gradient(lp.predicted[1], lp.labels[lp.i + 1])),
                        !.calls = Called("gradient")]
    /\ last' = Call("gradient", 0, <<lp.predicted[1], lp.labels[lp.i + 1]>>)
    /\ ret' = Ok(SSE_gradient(lp.predicted[1], lp.labels[lp.i + 1]))
    /\ UNCHANGED <<layers, heap, optim, trace, hist, steps, oh>>

\* model.backward(gradient)
LoopBackward ==
    /\ lp.pc = "backward"
    /\ LET r == Sequential_backward(layers, heap, lp.gradient[1])
       IN  /\ layers' = r.layers
           /\ ret' = r.ret
           /\ trace' = r.trace
           /\ lp' = [lp EXCEPT !.pc = IF r.ret.err = "" THEN "step" ELSE "raised",
                               !.calls = Called("backward")]
    /\ last' = Call("backward", 0, lp.gradient[1])
    /\ UNCHANGED <<heap, optim, hist, steps, oh>>

\* optimizer.step(model); None has no step.
LoopStep ==
    /\ lp.pc = "step"
    /\ LET r == IF ~lp.optimizer THEN Stepped(heap, optim, Raise("AttributeError"))
                ELSE IF optim.kind = "Momentum" THEN Momentum_step(optim, layers, heap)
                ELSE GradientDescent_step(optim, layers, heap)
       IN  /\ heap' = r.heap
           /\ optim' = r.optim
           /\ ret' = r.ret
           /\ lp' = [lp EXCEPT !.pc = IF r.ret.err = "" THEN "next" ELSE "raised",
                               !.calls = Called("step")]
    /\ last' = Call("step", 0, <<>>)
    /\ steps' = steps + 1
    /\ UNCHANGED <<layers, trace, hist, oh>>

\* the end of the body of `for i in t', and the end of the loop after
\* the last example
LoopNext ==
    /\ lp.pc = "next"
    /\ lp' = [lp EXCEPT !.pc = IF lp.i + 1 < Len(lp.images) THEN "forward" ELSE "done",
                        !.i = @ + 1]
    /\ last' = Call("next", 0, <<>>)
    /\ ret' = Ok(<<>>)
    /\ UNCHANGED <<layers, heap, optim, trace, hist, steps, oh>>

\* dropout.train = flag, between two calls of loop()
LoopSetTrain == Between /\ SetTrain

LoopNextStep ==
    \/ LoopCall
    \/ LoopForward
    \/ LoopLoss
    \/ LoopGradient
    \/ LoopBackward
    \/ LoopStep
    \/ LoopNext
    \/ LoopSetTrain

\* The models of two layers, whose squared errors stay small over the
\* training steps of MaxExamples examples.
LoopInit == SeqInit /\ Len(layers) = 2

LoopSpec == LoopInit /\ [][LoopNextStep]_vars

----------------------------------------------------------------------------
(* OneHotSpec: one call of one_hot_encode; num_labels is None when the     *)
(* caller leaves it to the default.                                        *)

OneHotInit ==
    /\ layers = <<>>
    /\ heap = <<>>
    /\ optim = NoOptim
    /\ ret = Ok(<<>>)
    /\ last = NoCall
    /\ trace = <<>>
    /\ hist = <<>>
    /\ lp = NoLoop
    /\ steps = 0
    /\ oh \in [i : -1..(MaxLabels + 1),
               num_labels : {None} \cup {Some(n) : n \in 0..MaxLabels},
               out : {None}]

\* one_hot_encode(i) or one_hot_encode(i, num_labels)
OneHotEncode ==
    /\ oh.out = None
    /\ oh' = [oh EXCEPT !.out =
                 Some(one_hot_encode(oh.i, IF oh.num_labels = None
                                           THEN DefaultNumLabels
                                           ELSE oh.num_labels[1]))]
    /\ last' = Call("one_hot_encode", 0, <<>>)
    /\ UNCHANGED <<layers, heap, optim, ret, trace, hist, lp, steps>>

OneHotNext == OneHotEncode

OneHotSpec == OneHotInit /\ [][OneHotNext]_vars

----------------------------------------------------------------------------
(* CombineSpec: tensor_combine called directly, with operator.add, on two  *)
(* tensors of rank 1 or of rank 2 whose lengths need not agree.            *)

\* The tensors of rank 1 and the rectangular tensors of rank 2 with leaves
\* in S and at most MaxLen entries at every level.
Tensors(S) ==
    VectorsUpTo(S, MaxLen)
        \cup UNION {VectorsUpTo(Vectors(S, n), MaxLen) : n \in 1..MaxLen}

CombineInit ==
    /\ layers = <<>>
    /\ heap = <<>>
    /\ optim = NoOptim
    /\ ret = Ok(<<>>)
    /\ last = NoCall
    /\ trace = <<>>
    /\ hist = <<>>
    /\ lp = NoLoop
    /\ steps = 0
    /\ oh = NoOneHot

\* tensor_combine(operator.add, t1, t2)
TensorCombine ==
    \E t1 \in Tensors({1, 2}) :
    \E t2 \in Tensors({10}) :
        /\ is_1d(t1) = is_1d(t2)
        /\ last' = Call("tensor_combine", 0, <<t1, t2>>)
        /\ ret' = Ok(tensor_combine([xy \in Int \X Int |-> xy[1] + xy[2]], t1, t2))
        /\ UNCHANGED <<layers, heap, optim, trace, hist, lp, steps, oh>>

CombineNext == TensorCombine

CombineSpec == CombineInit /\ [][CombineNext]_vars

----------------------------------------------------------------------------
(* InitSpec: the construction of one Linear or Dropout layer, and forward  *)
(* calls on the Dropout built.                                             *)

InitNames == {"normal", "uniform", "xavier", "he"}

\* The deviates inverse_normal_cdf(random.random()) may give.
ZVals == {-1, 2}

\* What the draws of random_tensor(init=init) give.
DrawsOf(init) == IF init = "uniform" THEN {0, 1} ELSE ZVals

\* The probabilities handed to Dropout, as numerators over 2: -1/2 to 3/2.
PVals == -1..3

\* Linear(input_dim, output_dim, init=init); a dimension may be 0
NewLinear ==
    \E input_dim \in 0..MaxLen :
    \E output_dim \in 0..MaxLen :
    \E init \in InitNames :
    \E rng \in Vectors(DrawsOf(init), output_dim * input_dim + output_dim) :
        LET r == Linear_new(input_dim, output_dim, init, heap, rng)
        IN  /\ layers = <<>>
            /\ layers' = r.layers
            /\ heap' = r.heap
            /\ ret' = r.ret
            /\ hist' = [k \in 1..Len(r.layers) |-> NoHist]
            /\ last' = Call("Linear", 0, <<input_dim, output_dim, init>>)
            /\ UNCHANGED <<optim, trace, lp, steps, oh>>

\* Dropout(p)
NewDropout ==
    \E p \in PVals :
        /\ layers = <<>>
        /\ layers' = <<Dropout_init(p)>>
        /\ hist' = <<NoHist>>
        /\ ret' = Ok(<<>>)
        /\ last' = Call("Dropout", 0, <<p>>)
        /\ UNCHANGED <<heap, optim, trace, lp, steps, oh>>

\* dropout.forward(input) on the layer built
DropoutForward ==
    /\ layers # <<>>
    /\ layers[1].kind = "Dropout"
    /\ LayerForward

InitNext == NewLinear \/ NewDropout \/ DropoutForward

InitSpec == CombineInit /\ [][InitNext]_vars

----------------------------------------------------------------------------
(* RandomSpec: random_normal and random_tensor called directly, for        *)
(* tensors of rank 1 and 2, a dimension of 0 included.                     *)

Dims == VectorsUpTo(0..MaxLen, 2)
Means == {Rat(0, 1), Rat(1, 1)}
Variances == {Rat(1, 1), Rat(4, 1), Rat(1, 4)}

\* random_normal(*dims, mean=mean, variance=variance)
RandomNormal ==
    \E dims \in Dims :
    \E mean \in Means :
    \E variance \in Variances :
    \E rng \in Vectors(ZVals, prod(dims)) :
        /\ last' = Call("random_normal", 0, <<dims, mean, variance, rng>>)
        /\ ret' = Ok(random_normal(dims, mean, variance, rng))
        /\ UNCHANGED <<layers, heap, optim, trace, hist, lp, steps, oh>>

\* random_tensor(*dims, init=init)
RandomTensor ==
    \E dims \in Dims :
    \E init \in InitNames :
    \E rng \in Vectors(DrawsOf(init), prod(dims)) :
        /\ last' = Call("random_tensor", 0, <<dims, init, rng>>)
        /\ ret' = random_tensor(dims, init, rng)
        /\ UNCHANGED <<layers, heap, optim, trace, hist, lp, steps, oh>>

RandomNext == RandomNormal \/ RandomTensor

RandomSpec == CombineInit /\ [][RandomNext]_vars

----------------------------------------------------------------------------
(* Properties of single layers (LayerSpec).                                *)

\* The sum of F[1], ..., F[n].
RECURSIVE Sigma(_, _)
Sigma(F, n) == IF n = 0 THEN 0 ELSE F[n] + Sigma(F, n - 1)

\* C5: a backward call in an invalid state raises an error and returns no
\* gradient: on a Dropout whose train flag is false, with or without a
\* cached mask, and on any layer on which forward was never called.
C5_InvalidBackwardRaises ==
    \A k \in 1..Len(layers) :
        (/\ last.op = "backward"
         /\ last.k = k
         /\ \/ layers[k].kind = "Dropout" /\ ~layers[k].train
            \/ ~hist[k].called)
        => /\ ret.err # ""
           /\ ret.val = <<>>
           /\ (layers[k].kind = "Dropout" /\ ~layers[k].train
                  => ret.err = "RuntimeError")

\* C8: Linear.forward on x returns dot(x, w[o]) + b[o] for each o, and a
\* backward on g that returns sets b_grad to g, w_grad[o][i] to x[i]*g[o]
\* and returns the sum over o of w[o][i]*g[o] for each i, where x is the
\* input of the preceding forward; neither call changes w or b.
C8_LinearStep ==
    \A k \in 1..Len(layers) :
        (layers[k].kind = "Linear" /\ last'.k = k) =>
        LET n == layers[k].input_dim
            m == layers[k].output_dim
            w == heap[layers[k].w]
            b == heap[layers[k].b]
        IN  /\ last'.op = "forward" =>
                /\ ret'.err = ""
                /\ Len(ret'.val) = m
                /\ \A o \in 1..m :
                      ret'.val[o] =
                          Sigma([i \in 1..n |-> last'.arg[i] * w[o][i]], n) + b[o]
                /\ heap' = heap
            /\ (last'.op = "backward" /\ ret'.err = "") =>
                LET x == hist[k].input[1]
                    g == last'.arg
                IN  /\ layers'[k].b_grad = Some(g)
                    /\ shape(layers'[k].b_grad[1]) = <<m>>
                    /\ Len(layers'[k].w_grad[1]) = m
                    /\ \A o \in 1..m : Len(layers'[k].w_grad[1][o]) = n
                    /\ \A o \in 1..m : \A i \in 1..n :
                          layers'[k].w_grad[1][o][i] = x[i] * g[o]
                    /\ Len(ret'.val) = n
                    /\ \A i \in 1..n :
                          ret'.val[i] = Sigma([o \in 1..m |-> w[o][i] * g[o]], m)
                    /\ heap' = heap
                    /\ layers'[k].w = layers[k].w
                    /\ layers'[k].b = layers[k].b

C8_LinearForwardBackward == [][C8_LinearStep]_vars

\* A Linear(2, 3) has returned the input gradient <<-14, 24>> for the
\* gradient <<2, -2, 2>> after a forward on <<150, -150>>.
C8_Witness ==
    /\ last.op = "backward"
    /\ layers[last.k].kind = "Linear"
    /\ ret.err = ""
    /\ last.arg = <<2, -2, 2>>
    /\ hist[last.k].input = Some(<<150, -150>>)
    /\ layers[last.k].w_grad = Some(<<<<300, -300>>, <<-300, 300>>, <<300, -300>>>>)
    /\ ret.val = <<-14, 24>>

\* C10: a backward call that returns a gradient on a layer that has been
\* called forward has used a cache written by the most recent forward call
\* on that layer; for Dropout, the mask it multiplied by was generated by
\* the most recent forward call.
C10_BackwardUsesLatestForward ==
    \A k \in 1..Len(layers) :
        (last.op = "backward" /\ last.k = k /\ ret.err = "" /\ hist[k].called)
        => hist[k].cached

----------------------------------------------------------------------------
(* Properties of Sequential (SeqSpec).                                     *)

\* C1: Sequential.forward calls the sub-layers' forward once each in
\* declaration order, each on the output of the one before, and returns the
\* last output; Sequential.backward calls their backward once each in
\* reverse order, each on the gradient the one after returned, and returns
\* the first sub-layer's result.  A sub-layer that raises ends the call.
C1_SequentialOrder ==
    LET n == Len(layers)
        Chained(op, pos(_)) ==
            /\ Len(trace) <= n
            /\ \A c \in 1..Len(trace) :
                  /\ trace[c].op = op
                  /\ trace[c].k = pos(c)
                  /\ trace[c].arg = IF c = 1 THEN last.arg ELSE trace[c - 1].ret.val
                  /\ c < Len(trace) => trace[c].ret.err = ""
            /\ Len(trace) > 0 => ret = trace[Len(trace)].ret
            /\ ret.err = "" => Len(trace) = n
        Down(c) == c
        Up(c) == n + 1 - c
    IN  /\ (last.op = "forward" /\ last.k = 0) => Chained("forward", Down)
        /\ (last.op = "backward" /\ last.k = 0) => Chained("backward", Up)

\* The three sub-layers of Sequential([Linear, Relu, Linear]) have
\* propagated a gradient back to the input.
C1_Witness ==
    /\ last.op = "backward"
    /\ last.k = 0
    /\ ret.err = ""
    /\ Len(layers) = 3
    /\ Len(trace) = 3
    /\ trace[1].k = 3
    /\ trace[3].k = 1
    /\ ret.val # <<0, 0>>

\* The position of the first parameter of sub-layer j in params().
Before(ls, j) == 2 * Cardinality({i \in Linears(ls) : i < j})

\* params() and grads() of the model pair up: as many gradients as
\* parameters, two per Linear sub-layer and none for any other, the
\* weight of a sub-layer facing its weight gradient and the bias its bias
\* gradient, each pair of one shape.
Aligned(ls, hp) ==
    LET ps == Sequential_params(ls)
        gs == Sequential_grads(ls)
    IN  /\ gs.err = ""
        /\ Len(ps) = 2 * Cardinality(Linears(ls))
        /\ Len(gs.val) = Len(ps)
        /\ \A k \in 1..Len(ps) : shape(hp[ps[k]]) = shape(gs.val[k])
        /\ \A j \in Linears(ls) :
              /\ ps[Before(ls, j) + 1] = ls[j].w
              /\ ps[Before(ls, j) + 2] = ls[j].b
              /\ shape(hp[ls[j].w]) = <<ls[j].output_dim, ls[j].input_dim>>
              /\ shape(hp[ls[j].b]) = <<ls[j].output_dim>>
              /\ gs.val[Before(ls, j) + 1] = ls[j].w_grad[1]
              /\ gs.val[Before(ls, j) + 2] = ls[j].b_grad[1]

\* C2: once a backward call of the model has completed, params() and
\* grads() pair up position by position (same length, nothing from the
\* parameterless sub-layers, same sub-layer, role and shape at every
\* position), they keep doing so after every later call, and params()
\* never changes its order.
C2_ParamsGradsStep ==
    /\ Sequential_params(layers') = Sequential_params(layers)
    /\ ((last'.op = "backward" /\ last'.k = 0 /\ ret'.err = "")
            \/ Aligned(layers, heap))
       => Aligned(layers', heap')

C2_ParamsGradsAligned == [][C2_ParamsGradsStep]_vars

\* Sequential([Linear, Relu, Linear]) holds four parameters and four
\* gradients that pair up, a forward call after the backward that set them.
C2_Witness ==
    /\ last.op = "forward"
    /\ last.k = 0
    /\ Len(layers) = 3
    /\ Aligned(layers, heap)
    /\ Len(Sequential_params(layers)) = 4
    /\ shape(Sequential_grads(layers).val[1]) = <<2, 2>>
    /\ shape(Sequential_grads(layers).val[4]) = <<1>>

----------------------------------------------------------------------------
(* Properties of the optimizers (OptSpec).                                 *)

\* new = a * old + c * g, leaf by leaf, for tensors of rank 1 or 2.
Affine(new, a, old, c, g) ==
    /\ Len(new) = Len(old)
    /\ IF is_1d(old)
       THEN \A i \in 1..Len(old) : new[i] = a * old[i] + c * g[i]
       ELSE \A o \in 1..Len(old) :
               /\ Len(new[o]) = Len(old[o])
               /\ \A i \in 1..Len(old[o]) :
                     new[o][i] = a * old[o][i] + c * g[o][i]

\* C3: a GradientDescent step that returns has replaced every leaf p of
\* every parameter by p - lr*g, g the leaf at the same index of the
\* gradient at the same position, in the parameter objects themselves:
\* params() names the same objects as before and no object was created.
C3_GradientDescentStep ==
    (last'.op = "step" /\ optim.kind = "GradientDescent" /\ ret'.err = "") =>
        LET ps == Sequential_params(layers)
            gs == Sequential_grads(layers).val
        IN  /\ Sequential_params(layers') = ps
            /\ Len(heap') = Len(heap)
            /\ Len(gs) = Len(ps)
            /\ \A k \in 1..Len(ps) :
                  Affine(heap'[ps[k]], 1, heap[ps[k]], -optim.lr, gs[k])
            /\ \A id \in 1..Len(heap) :
                  (\A k \in 1..Len(ps) : ps[k] # id) => heap'[id] = heap[id]
            /\ optim' = optim

C3_GradientDescentInPlace == [][C3_GradientDescentStep]_vars

\* A second GradientDescent step has moved the weights of the first
\* Linear layer, which are still object 1.
C3_Witness ==
    /\ last.op = "step"
    /\ optim.kind = "GradientDescent"
    /\ ret.err = ""
    /\ steps = 2
    /\ layers[1].kind = "Linear"
    /\ layers[1].w = 1
    /\ heap[1] # W22
    /\ heap[2] # B2

\* C4: a Momentum step that returns allocates the velocities only when
\* it has none (one zero tensor per gradient, shaped like it) and otherwise
\* keeps the same velocity objects with their shapes; for every position
\* it sets the velocity to mo*velocity + (1-mo)*gradient and then the
\* parameter to parameter - lr*(the new velocity).
C4_MomentumStep ==
    (last'.op = "step" /\ optim.kind = "Momentum" /\ ret'.err = "") =>
        LET ps == Sequential_params(layers)
            gs == Sequential_grads(layers).val
            first == optim.updates = <<>>
            us == optim'.updates
        IN  /\ Sequential_params(layers') = ps
            /\ Len(us) = Len(gs)
            /\ Len(gs) = Len(ps)
            /\ first => /\ Len(heap') = Len(heap) + Len(gs)
                        /\ \A k \in 1..Len(us) : us[k] > Len(heap)
                        /\ \A k, l \in 1..Len(us) : us[k] = us[l] => k = l
            /\ ~first => /\ us = optim.updates
                         /\ Len(heap') = Len(heap)
            /\ \A k \in 1..Len(us) :
                  /\ shape(heap'[us[k]]) = shape(gs[k])
                  /\ Affine(heap'[us[k]],
                            optim.mo,
                            IF first THEN full(shape(gs[k]), 0) ELSE heap[us[k]],
                            1 - optim.mo,
                            gs[k])
                  /\ Affine(heap'[ps[k]], 1, heap[ps[k]], -optim.lr, heap'[us[k]])
            /\ optim'.lr = optim.lr
            /\ optim'.mo = optim.mo

C4_MomentumVelocity == [][C4_MomentumStep]_vars

\* A second Momentum step has run on the velocities the first one
\* allocated behind the four parameters of Sequential([Linear, Relu, Linear]).
C4_Witness ==
    /\ last.op = "step"
    /\ optim.kind = "Momentum"
    /\ ret.err = ""
    /\ steps = 2
    /\ optim.updates = <<5, 6, 7, 8>>
    /\ heap[5] # <<<<0, 0>>, <<0, 0>>>>
    /\ heap[1] # W22

----------------------------------------------------------------------------
(* Properties of weight loading (LoadSpec).                                *)

\* C6: load_weights assigns the stored tensors, in place, exactly when
\* the file holds one tensor per parameter of the model, each of the shape
\* of its parameter; otherwise it raises and changes no parameter.
C6_LoadStep ==
    last'.op = "load_weights" =>
        LET ps == Sequential_params(layers)
            weights == last'.arg
        IN  IF /\ Len(weights) = Len(ps)
               /\ \A k \in 1..Len(ps) : shape(weights[k]) = shape(heap[ps[k]])
            THEN /\ ret'.err = ""
                 /\ Sequential_params(layers') = ps
                 /\ \A k \in 1..Len(ps) : heap'[ps[k]] = weights[k]
            ELSE /\ ret'.err # ""
                 /\ heap' = heap

C6_LoadChecksEveryPosition == [][C6_LoadStep]_vars

----------------------------------------------------------------------------
(* Properties of the training loop (LoopSpec).                             *)

\* The calls loop() makes for one example.
Round(optimizer) ==
    IF optimizer THEN <<"forward", "loss", "gradient", "backward", "step">>
                 ELSE <<"forward", "loss">>

\* C7: loop() handles the examples one after the other, calling for each
\* model.forward, loss.loss and then, only when an optimizer was passed,
\* loss.gradient, model.backward, optimizer.step; without an optimizer it
\* never calls backward or step and the parameters stay as they were.
C7_LoopOrder ==
    LET round == Round(lp.optimizer)
        n == Len(round)
    IN  /\ \A c \in 1..Len(lp.calls) :
              /\ lp.calls[c].op = round[((c - 1) % n) + 1]
              /\ lp.calls[c].i = (c - 1) \div n
        /\ lp.pc = "done" => Len(lp.calls) = n * Len(lp.images)
        /\ (lp.pc # "idle" /\ ~lp.optimizer) =>
              /\ heap = lp.before
              /\ \A c \in 1..Len(lp.calls) :
                    lp.calls[c].op \notin {"gradient", "backward", "step"}

\* A training run over two examples has ended after ten calls, the
\* parameters changed.
C7_Witness ==
    /\ lp.pc = "done"
    /\ lp.optimizer
    /\ Len(lp.images) = 2
    /\ Len(lp.calls) = 10
    /\ lp.calls[6] = [op |-> "forward", i |-> 1]
    /\ heap # lp.before

----------------------------------------------------------------------------
(* Properties of one_hot_encode (OneHotSpec).                              *)

\* C9: for 0 <= i < num_labels, one_hot_encode(i, num_labels) has
\* num_labels entries, 1 at index i and 0 elsewhere; one_hot_encode(3) is
\* [0,0,0,1,0,0,0,0,0,0] and one_hot_encode(2, 5) is [0,0,1,0,0].
C9_OneHot ==
    oh.out # None =>
        LET n == IF oh.num_labels = None THEN 10 ELSE oh.num_labels[1]
            out == oh.out[1]
        IN  /\ Len(out) = n
            /\ (0 <= oh.i /\ oh.i < n) =>
                  /\ out[oh.i + 1] = 1
                  /\ \A j \in 1..n : j # oh.i + 1 => out[j] = 0
            /\ (oh.i = 3 /\ oh.num_labels = None) =>
                  out = <<0, 0, 0, 1, 0, 0, 0, 0, 0, 0>>
            /\ (oh.i = 2 /\ oh.num_labels = Some(5)) => out = <<0, 0, 1, 0, 0>>

\* one_hot_encode(2, num_labels=5) has returned.
C9_Witness ==
    /\ oh.i = 2
    /\ oh.num_labels = Some(5)
    /\ oh.out = Some(<<0, 0, 1, 0, 0>>)

----------------------------------------------------------------------------
(* Properties of tensor_combine (CombineSpec).                             *)

\* C11: tensor_combine on two tensors of different shape raises an error
\* and never returns a result cut down to the shorter of the two.
C11_CombineRejectsMismatch ==
    (last.op = "tensor_combine" /\ shape(last.arg[1]) # shape(last.arg[2]))
        => ret.err # ""

----------------------------------------------------------------------------
(* Properties of construction (InitSpec).                                  *)

\* C12: a Linear built with an init name other than normal, uniform and
\* xavier raises an error and leaves no layer, and a Dropout built with a
\* probability below 0 or above 1 raises an error and leaves no layer.
C12_InvalidConfigurationRejected ==
    /\ (last.op = "Linear" /\ last.arg[3] \notin {"normal", "uniform", "xavier"})
            => (ret.err # "" /\ layers = <<>> /\ heap = <<>>)
    /\ (last.op \in {"Dropout", "forward"} /\ layers # <<>>
            /\ layers[1].kind = "Dropout")
            => (0 <= layers[1].p /\ layers[1].p <= 2)
    /\ (last.op = "Dropout" /\ (last.arg[1] < 0 \/ last.arg[1] > 2))
            => (ret.err # "" /\ layers = <<>>)

----------------------------------------------------------------------------
(* Properties of the random tensors (RandomSpec).                          *)

\* Leaf j, in the order of the draws, of a tensor of rank 1 or 2.
Leaf(tensor, dims, j) ==
    IF Len(dims) = 1 THEN tensor[j]
    ELSE tensor[((j - 1) \div dims[2]) + 1][((j - 1) % dims[2]) + 1]

\* leaf = mean + sqrt(variance) * z: leaf - mean has the sign of z and
\* its square is variance * z * z.
ScaledBySqrt(leaf, mean, variance, z) ==
    LET dn == leaf.n * mean.d - mean.n * leaf.d
        dd == leaf.d * mean.d
    IN  /\ dn * z >= 0
        /\ dn * dn * variance.d = variance.n * z * z * dd * dd

\* C13: every leaf of random_normal is mean + sqrt(variance)*z for its
\* standard normal draw z, and every leaf of the xavier initializer is
\* sqrt(rank / sum(dims)) * z.
C13_NormalScaledBySqrtVariance ==
    /\ last.op = "random_normal" =>
          \A j \in 1..prod(last.arg[1]) :
              ScaledBySqrt(Leaf(ret.val, last.arg[1], j),
                           last.arg[2], last.arg[3], last.arg[4][j])
    /\ (last.op = "random_tensor" /\ last.arg[2] = "xavier") =>
          \A j \in 1..prod(last.arg[1]) :
              ScaledBySqrt(Leaf(ret.val, last.arg[1], j),
                           Rat(0, 1),
                           Rat(Len(last.arg[1]), sum(last.arg[1])),
                           last.arg[3][j])

====
